---- MODULE Spec2Model ----
(***************************************************************************)
(* State-machine model of src/kurtosis.py: the IVIM model with a kurtosis  *)
(* correction (IvimModelDKI), its signal function, its per-voxel fit and   *)
(* the multi-voxel decorator.                                              *)
(*                                                                         *)
(* Floating-point numbers of the fit are IEEE-like values at a fixed-point *)
(* resolution of one tenth: Fin(n) is the real n/10, and NaN, Inf, NegInf  *)
(* are the IEEE specials.  b-values and kurtosis values are integers.      *)
(***************************************************************************)
EXTENDS Integers, Sequences, FiniteSets, TLC

VARIABLES pc, gtab, model, raised, warnings,
          data, dki_map, lin, params_f_D_star, params_linear,
          lsq, params_two_stage, result,
          ivim_params, signal,
          volume, mask, fit_array, ijk, nfits

vars == <<pc, gtab, model, raised, warnings,
          data, dki_map, lin, params_f_D_star, params_linear,
          lsq, params_two_stage, result,
          ivim_params, signal,
          volume, mask, fit_array, ijk, nfits>>

fitVars == <<data, dki_map, lin, params_f_D_star, params_linear,
             lsq, params_two_stage, result>>
signalVars == <<ivim_params, signal>>
batchVars == <<volume, mask, fit_array, ijk, nfits>>

----------------------------------------------------------------------------
(* Floating-point values *)

Fin(n) == [k |-> "fin", v |-> n]
NaN == [k |-> "nan", v |-> 0]
Inf == [k |-> "inf", v |-> 1]
NegInf == [k |-> "inf", v |-> -1]

IsNaN(x) == x.k = "nan"
IsFinite(x) == x.k = "fin"

\* x <= y as IEEE compares: false as soon as one side is NaN
Le(x, y) ==
    IF IsNaN(x) \/ IsNaN(y) THEN FALSE
    ELSE IF x.k = "inf" THEN (x.v = -1 \/ (y.k = "inf" /\ y.v = 1))
    ELSE IF y.k = "inf" THEN y.v = 1
    ELSE x.v <= y.v

Lt(x, y) == Le(x, y) /\ ~Le(y, x)

\* p / q rounded to the nearest integer, q > 0
RoundDiv(p, q) == (2 * p + q) \div (2 * q)

Sign(n) == IF n > 0 THEN 1 ELSE IF n < 0 THEN -1 ELSE 0

\* x / y on floats (numpy scalars: division by zero gives inf or nan, no error)
Div(x, y) ==
    IF IsNaN(x) \/ IsNaN(y) THEN NaN
    ELSE IF x.k = "inf" THEN
        (IF y.k = "inf" THEN NaN
         ELSE [k |-> "inf", v |-> IF y.v < 0 THEN -x.v ELSE x.v])
    ELSE IF y.k = "inf" THEN Fin(0)
    ELSE IF y.v = 0 THEN
        (IF x.v = 0 THEN NaN ELSE [k |-> "inf", v |-> Sign(x.v)])
    ELSE Fin(Sign(y.v) * RoundDiv(x.v * 10, Sign(y.v) * y.v))

\* x - y on floats
Sub(x, y) ==
    IF IsNaN(x) \/ IsNaN(y) THEN NaN
    ELSE IF x.k = "inf" THEN
        (IF y.k = "inf" /\ y.v = x.v THEN NaN ELSE x)
    ELSE IF y.k = "inf" THEN [k |-> "inf", v |-> -y.v]
    ELSE Fin(x.v - y.v)

Neg(x) == IF x.k = "nan" THEN NaN ELSE [k |-> x.k, v |-> -x.v]

\* exp(n/10) in tenths, n in -20..20 (the regressions of the sampled signals
\* stay within this range)
ExpTable ==
    <<1, 1, 2, 2, 2, 2, 2, 3, 3, 3, 4, 4, 4, 5, 5, 6, 7, 7, 8, 9,
      10,
      11, 12, 13, 15, 16, 18, 20, 22, 25, 27, 30, 33, 37, 41, 45, 50, 55,
      60, 67, 74>>

\* np.exp
Exp(x) ==
    IF IsNaN(x) THEN NaN
    ELSE IF x.k = "inf" THEN (IF x.v = 1 THEN Inf ELSE Fin(0))
    ELSE IF x.v > 20 THEN Inf
    ELSE IF x.v < -20 THEN Fin(0)
    ELSE Fin(ExpTable[x.v + 21])

\* np.log: log(0) is -inf, the log of a negative number is nan
Log(x) ==
    IF IsNaN(x) THEN NaN
    ELSE IF x.k = "inf" THEN (IF x.v = 1 THEN Inf ELSE NaN)
    ELSE IF x.v < 0 THEN NaN
    ELSE IF x.v = 0 THEN NegInf
    ELSE CASE x.v = 1 -> Fin(-23)
           [] x.v = 2 -> Fin(-16)
           [] x.v = 5 -> Fin(-7)
           [] x.v = 10 -> Fin(0)
           [] x.v = 20 -> Fin(7)
           [] x.v = 40 -> Fin(14)

\* np.all(x >= lo) and np.all(x <= hi), elementwise over equal-length vectors
AllGe(x, lo) == \A i \in DOMAIN x : Le(lo[i], x[i])
AllLe(x, hi) == \A i \in DOMAIN x : Le(x[i], hi[i])

----------------------------------------------------------------------------
(* Acquisition context and model construction *)

\* dipy.reconst.ivim.BOUNDS, the default the constructor falls back to
BOUNDS ==
    << <<Fin(0), Fin(0), Fin(0), Fin(0)>>, <<Inf, Fin(3), Fin(10), Fin(10)>> >>

\* bounds=None, also standing for bounds not passed
None == << >>

\* gtab.b0s_mask: the b-values at or below the table's b0 threshold
b0s_mask(g) == [i \in DOMAIN g.bvals |-> g.bvals[i] <= g.b0_threshold]

np_any(m) == \E i \in DOMAIN m : m[i]

NoModel ==
    [constructed |-> FALSE, split_b_D |-> 0, split_b_S0 |-> 0,
     bounds |-> None, two_stage |-> FALSE]

\* IvimModelDKI.__init__ with the b0 check dropped
IvimModelDKI_init_noB0Check(g, split_b_D, split_b_S0, bounds, two_stage) ==
    IF g.b0_threshold > 0
    THEN [raised |-> "ValueError", model |-> NoModel]
    ELSE [raised |-> "none",
          model |-> [constructed |-> TRUE, split_b_D |-> split_b_D,
                     split_b_S0 |-> split_b_S0,
                     bounds |-> IF bounds = None THEN BOUNDS ELSE bounds,
                     two_stage |-> two_stage]]

\* IvimModelDKI.__init__
IvimModelDKI_init(g, split_b_D, split_b_S0, bounds, two_stage) ==
    IF ~np_any(b0s_mask(g))
    THEN [raised |-> "ValueError", model |-> NoModel]
    ELSE IF g.b0_threshold > 0
    THEN [raised |-> "ValueError", model |-> NoModel]
    ELSE [raised |-> "none",
          model |-> [constructed |-> TRUE, split_b_D |-> split_b_D,
                     split_b_S0 |-> split_b_S0,
                     bounds |-> IF bounds = None THEN BOUNDS ELSE bounds,
                     two_stage |-> two_stage]]

----------------------------------------------------------------------------
(* Linear estimator *)

RECURSIVE SumSeq(_)
SumSeq(s) == IF s = << >> THEN 0 ELSE Head(s) + SumSeq(Tail(s))

\* a[m]: boolean-mask indexing
RECURSIVE Masked(_, _)
Masked(a, m) ==
    IF a = << >> THEN << >>
    ELSE (IF Head(m) THEN <<Head(a)>> ELSE << >>) \o Masked(Tail(a), Tail(m))

PolyRaise(e) ==
    [raised |-> e, slope |-> NaN, intercept |-> NaN, rank_warning |-> FALSE]
PolyOk(s, c, w) ==
    [raised |-> "none", slope |-> s, intercept |-> c, rank_warning |-> w]

\* np.polyfit(x, y, 1): x integers, y floats.  An empty x is a TypeError.  A
\* non-finite y, or an x of zeros only (its column scale is 0), puts nan into
\* the least-squares system: LAPACK then fails (LinAlgError) or answers nan,
\* depending on the build.  Equal x (one point included) is rank deficient:
\* the minimum-norm solution (mean(y)/(2b), mean(y)/2) is returned, with a
\* RankWarning.  b-values are non-negative, so Sx > 0 there.
np_polyfit(x, y) ==
    LET n == Len(x)
        Sx == SumSeq(x)
        Sxx == SumSeq([i \in DOMAIN x |-> x[i] * x[i]])
        Sy == SumSeq([i \in DOMAIN y |-> y[i].v])
        Sxy == SumSeq([i \in DOMAIN x |-> x[i] * y[i].v])
        den == n * Sxx - Sx * Sx
    IN  IF n = 0 THEN {PolyRaise("TypeError")}
        ELSE IF (\E i \in DOMAIN y : ~IsFinite(y[i])) \/ Sxx = 0
        THEN {PolyRaise("LinAlgError"), PolyOk(NaN, NaN, FALSE)}
        ELSE IF den = 0
        THEN {PolyOk(Fin(RoundDiv(Sy, 2 * Sx)), Fin(RoundDiv(Sy, 2 * n)), TRUE)}
        ELSE {PolyOk(Fin(RoundDiv(n * Sxy - Sx * Sy, den)),
                     Fin(RoundDiv(Sy * Sxx - Sx * Sxy, den)), FALSE)}

\* IvimModelDKI.estimate_linear_fit: the set of its outcomes
estimate_linear_fit(g, d, split_b, less_than) ==
    LET m == [i \in DOMAIN g.bvals |->
                 IF less_than THEN g.bvals[i] <= split_b
                 ELSE g.bvals[i] >= split_b]
        bvals_split == Masked(g.bvals, m)
        dsel == Masked(d, m)
        y == [i \in DOMAIN dsel |-> Neg(Log(dsel[i]))]
    IN  { [raised |-> p.raised,
           S0 |-> Exp(Neg(p.intercept)),
           D |-> p.slope,
           n |-> Len(bvals_split),
           rank_warning |-> p.rank_warning] : p \in np_polyfit(bvals_split, y) }

----------------------------------------------------------------------------
(* The bounded optimizer, scipy.optimize.least_squares *)

\* Vectors the optimizer may answer with (res.x).  The fit checks its answer
\* for nan and against the bounds, so the answers modelled are not limited to
\* finite or feasible ones.
Res2 == {<<Fin(2), Fin(1)>>, <<Fin(5), Fin(1)>>}
Res4 ==
    {<<s, f, ds, d>> : s \in {NaN, Fin(10), Inf},
                       f \in {NaN, Fin(-10), Fin(2), Fin(5)},
                       ds \in {NaN, Fin(1)},
                       d \in {NaN, Fin(1)}}

\* least_squares(fun, x0, bounds=(lb, ub)): ValueError when a lower bound is
\* not strictly below its upper bound, when x0 is not within the bounds, or
\* when the residuals at x0 are not finite; otherwise some vector of cands
least_squares(x0, lb, ub, cands) ==
    IF (\E i \in DOMAIN lb : ~Lt(lb[i], ub[i]))
       \/ ~(AllGe(x0, lb) /\ AllLe(x0, ub))
       \/ (\E i \in DOMAIN x0 : ~IsFinite(x0[i]))
    THEN {[raised |-> TRUE, x |-> x0]}
    ELSE {[raised |-> FALSE, x |-> c] : c \in cands}

\* estimate_f_D_star without its except clause
estimate_f_D_star_noCatch(seed, bounds) ==
    { IF o.raised
      THEN [raised |-> "ValueError", f |-> seed[1], D_star |-> seed[2],
            warned |-> FALSE]
      ELSE [raised |-> "none", f |-> o.x[1], D_star |-> o.x[2],
            warned |-> FALSE]
      : o \in least_squares(seed, <<Fin(0), Fin(0)>>,
                            <<bounds[2][2], bounds[2][3]>>, Res2) }

\* IvimModelDKI.estimate_f_D_star: the set of its outcomes
estimate_f_D_star(seed, bounds) ==
    { IF o.raised
      THEN [raised |-> "none", f |-> seed[1], D_star |-> seed[2],
            warned |-> TRUE]
      ELSE [raised |-> "none", f |-> o.x[1], D_star |-> o.x[2],
            warned |-> FALSE]
      : o \in least_squares(seed, <<Fin(0), Fin(0)>>,
                            <<bounds[2][2], bounds[2][3]>>, Res2) }

\* np.array([-1, -1, -1, -1])
Sentinel == <<Fin(-10), Fin(-10), Fin(-10), Fin(-10)>>

\* IvimModelDKI._leastsq: the set of its outcomes; res is the optimizer's own
\* outcome, ret what _leastsq returns
_leastsq(x0, bounds) ==
    { IF o.raised
      THEN [res |-> o, ret |-> x0, warned |-> TRUE]
      ELSE [res |-> o,
            ret |-> IF \A i \in DOMAIN o.x : IsNaN(o.x[i])
                    THEN Sentinel ELSE o.x,
            warned |-> FALSE]
      : o \in least_squares(x0, bounds[1], bounds[2], Res4) }

----------------------------------------------------------------------------
(* Per-voxel fit *)

GtabSamples ==
    {[bvals |-> b, b0_threshold |-> t] :
        b \in {<<0, 1, 2>>, <<0, 0, 2>>, <<1, 1, 2>>}, t \in {-1, 0, 1}}
SplitDSamples == {1, 2, 3}
SplitS0Samples == {-1, 0, 1}
BoundsSamples ==
    {None,
     << <<Fin(-20), Fin(-20), Fin(-20), Fin(-20)>>,
        <<Inf, Fin(10), Fin(10), Fin(10)>> >>}
DataSamples ==
    {<<Fin(20), Fin(10), Fin(5)>>, <<Fin(5), Fin(10), Fin(20)>>,
     <<Fin(20), Fin(5), Fin(5)>>, <<Fin(10), Fin(0), Fin(5)>>,
     <<Fin(10), Fin(10), Fin(10)>>}
KSamples == {0, 2}

NoVec == << >>
NoLin ==
    [S0_prime |-> NaN, D |-> NaN, S0 |-> NaN, D_star_prime |-> NaN,
     n_high |-> 0, n_low |-> 0]
NoLsq == [called |-> FALSE, x0 |-> NoVec, res |-> [raised |-> FALSE, x |-> NoVec]]

FitIdle ==
    /\ data = NoVec /\ dki_map = 0 /\ lin = NoLin
    /\ params_f_D_star = NoVec /\ params_linear = NoVec
    /\ lsq = NoLsq /\ params_two_stage = NoVec /\ result = NoVec
SignalIdle == ivim_params = NoVec /\ signal = NoVec
BatchIdle ==
    /\ volume = << >> /\ mask = << >> /\ fit_array = << >>
    /\ ijk = 0 /\ nfits = << >>

Init ==
    /\ pc = "new"
    /\ gtab \in GtabSamples
    /\ model = NoModel
    /\ raised = "none"
    /\ warnings = {}
    /\ FitIdle /\ SignalIdle /\ BatchIdle

\* ivim_model = IvimModel(gtab, ...), that is ivim_model_selector: it builds
\* an IvimModelDKI and, when no bounds were passed, warns that the bounds
\* come from the literature
Construct ==
    /\ pc = "new"
    /\ \E sD \in SplitDSamples, sS \in SplitS0Samples,
          b \in BoundsSamples, ts \in BOOLEAN :
          LET o == IvimModelDKI_init(gtab, sD, sS, b, ts)
          IN  /\ model' = o.model
              /\ raised' = o.raised
              /\ pc' = IF o.raised = "none" THEN "ready" ELSE "Raised"
              /\ warnings' = IF o.raised = "none" /\ b = None
                             THEN warnings \cup {"bounds_from_literature"}
                             ELSE warnings
    /\ UNCHANGED <<gtab, fitVars, signalVars, batchVars>>

\* ivim_model.fit(data, dki_map) on one voxel: entry
CallFit ==
    /\ pc = "ready"
    /\ data' \in DataSamples
    /\ dki_map' \in KSamples
    /\ pc' = "LinearFit"
    /\ UNCHANGED <<gtab, model, raised, warnings, lin, params_f_D_star,
                   params_linear, lsq, params_two_stage, result,
                   signalVars, batchVars>>

RankWarnings(o) == IF o.rank_warning THEN {"RankWarning"} ELSE {}

\* fit, lines 247-254: the two log-linear regressions
LinearFit ==
    /\ pc = "LinearFit"
    /\ \E hi \in estimate_linear_fit(gtab, data, model.split_b_D, FALSE) :
          IF hi.raised # "none"
          THEN /\ raised' = hi.raised
               /\ pc' = "Raised"
               /\ UNCHANGED <<lin, warnings>>
          ELSE \E lo \in estimate_linear_fit(gtab, data, model.split_b_S0, TRUE) :
                 IF lo.raised # "none"
                 THEN /\ raised' = lo.raised
                      /\ pc' = "Raised"
                      /\ warnings' = warnings \cup RankWarnings(hi)
                      /\ UNCHANGED lin
                 ELSE /\ lin' = [S0_prime |-> hi.S0, D |-> hi.D,
                                 S0 |-> lo.S0, D_star_prime |-> lo.D,
                                 n_high |-> hi.n, n_low |-> lo.n]
                      /\ warnings' = warnings \cup RankWarnings(hi)
                                              \cup RankWarnings(lo)
                      /\ pc' = "PerfusionFit"
                      /\ UNCHANGED raised
    /\ UNCHANGED <<gtab, model, data, dki_map, params_f_D_star, params_linear,
                   lsq, params_two_stage, result, signalVars, batchVars>>

\* the two_stage branch of fit taken whatever the flag
RunsTwoStage_always(m) == TRUE

\* fit, line 263: if self.two_stage
RunsTwoStage(m) == m.two_stage

\* fit, lines 256-263 and 275-276: f_guess, the (f, D*) estimate, the linear
\* candidate; with two_stage off it is returned
PerfusionFit ==
    /\ pc = "PerfusionFit"
    /\ LET f_guess == Sub(Fin(10), Div(lin.S0_prime, lin.S0))
           seed == <<f_guess, lin.D_star_prime>>
       IN  /\ params_f_D_star' = seed
           /\ \E o \in estimate_f_D_star(seed, model.bounds) :
                IF o.raised # "none"
                THEN /\ raised' = o.raised
                     /\ pc' = "Raised"
                     /\ UNCHANGED <<warnings, params_linear, result>>
                ELSE /\ params_linear' = <<lin.S0, o.f, o.D_star, lin.D>>
                     /\ warnings' = warnings \cup
                           (IF o.warned THEN {"f_D_star_infeasible"} ELSE {})
                     /\ UNCHANGED raised
                     /\ IF RunsTwoStage(model)
                        THEN pc' = "NonlinearRefine" /\ UNCHANGED result
                        ELSE pc' = "Done" /\ result' = params_linear'
    /\ UNCHANGED <<gtab, model, data, dki_map, lin, lsq, params_two_stage,
                   signalVars, batchVars>>

\* fit, line 264: params_two_stage = self._leastsq(data, dki_map, params_linear)
NonlinearRefine ==
    /\ pc = "NonlinearRefine"
    /\ \E o \in _leastsq(params_linear, model.bounds) :
          /\ lsq' = [called |-> TRUE, x0 |-> params_linear, res |-> o.res]
          /\ params_two_stage' = o.ret
          /\ warnings' = warnings \cup
                (IF o.warned THEN {"x0_unfeasible"} ELSE {})
    /\ pc' = "Decision"
    /\ UNCHANGED <<gtab, model, raised, data, dki_map, lin, params_f_D_star,
                   params_linear, result, signalVars, batchVars>>

\* the bounds check with the lower bounds forgotten
bounds_violated_upperOnly(p, bounds) == ~AllLe(p, bounds[2])

\* fit, lines 265-266
bounds_violated(p, bounds) == ~(AllGe(p, bounds[1]) /\ AllLe(p, bounds[2]))

\* fit, lines 265-274: the plausibility rule
Decision ==
    /\ pc = "Decision"
    /\ IF bounds_violated(params_two_stage, model.bounds)
       THEN /\ warnings' = warnings \cup {"bounds_violated"}
            /\ result' = params_linear
       ELSE /\ result' = params_two_stage
            /\ UNCHANGED warnings
    /\ pc' = "Done"
    /\ UNCHANGED <<gtab, model, raised, data, dki_map, lin, params_f_D_star,
                   params_linear, lsq, params_two_stage, signalVars, batchVars>>

Next ==
    \/ Construct
    \/ CallFit
    \/ LinearFit
    \/ PerfusionFit
    \/ NonlinearRefine
    \/ Decision

Spec == Init /\ [][Next]_vars

----------------------------------------------------------------------------
(* Claims about construction and the per-voxel fit, checked under Spec *)

HasZeroB(g) == \E i \in DOMAIN g.bvals : g.bvals[i] = 0
FitReturned == pc = "Done"
RefinerRan == lsq.called
\* a component outside [lower, upper]; a nan component is within no interval
OutsideBounds(p, bounds) ==
    \E i \in DOMAIN p : ~(Le(bounds[1][i], p[i]) /\ Le(p[i], bounds[2][i]))
\* the feasible box of the 2-parameter stage
Box2(bounds) == << <<Fin(0), Fin(0)>>, <<bounds[2][2], bounds[2][3]>> >>
PerfusionRan == params_f_D_star # NoVec
NonFinite(p) == \E i \in DOMAIN p : ~IsFinite(p[i])

C2_LinearOnly ==
    (model.constructed /\ ~model.two_stage) =>
        /\ pc \notin {"NonlinearRefine", "Decision"}
        /\ ~RefinerRan
        /\ params_two_stage = NoVec
        /\ "bounds_violated" \notin warnings
        /\ "x0_unfeasible" \notin warnings
        /\ PerfusionRan /\ raised = "none" => FitReturned
        /\ FitReturned => result = params_linear /\ Len(result) = 4

C2_Witness ==
    /\ FitReturned /\ model.constructed /\ ~model.two_stage
    /\ result = params_linear /\ Len(result) = 4

\* C5: construction raises, leaving no model and no configuration, when the
\* acquisition has no zero b-value or its b0 threshold is not exactly zero,
\* and succeeds otherwise.
C5_ConstructionValidates ==
    pc # "new" =>
        IF HasZeroB(gtab) /\ gtab.b0_threshold = 0
        THEN model.constructed
        ELSE pc = "Raised" /\ raised = "ValueError" /\ model = NoModel

C5_Witness ==
    /\ pc = "Raised" /\ raised = "ValueError" /\ model = NoModel
    /\ HasZeroB(gtab) /\ gtab.b0_threshold # 0

\* C6: a nonlinear stage given a seed outside its feasible bounds does not
\* raise: it warns and returns the seed unchanged, and the fit goes on to a
\* result.
C6_InfeasibleSeedFallsBack ==
    /\ (PerfusionRan /\ OutsideBounds(params_f_D_star, Box2(model.bounds))) =>
          /\ raised = "none"
          /\ pc \in {"NonlinearRefine", "Decision", "Done"}
          /\ "f_D_star_infeasible" \in warnings
          /\ <<params_linear[2], params_linear[3]>> = params_f_D_star
    /\ (RefinerRan /\ OutsideBounds(lsq.x0, model.bounds)) =>
          /\ raised = "none"
          /\ pc \in {"Decision", "Done"}
          /\ "x0_unfeasible" \in warnings
          /\ params_two_stage = lsq.x0
    /\ pc \in {"NonlinearRefine", "Decision"} => ENABLED Next
    /\ FitReturned => Len(result) = 4

C6_Witness ==
    /\ FitReturned /\ Len(result) = 4
    /\ OutsideBounds(params_f_D_star, Box2(model.bounds))
    /\ RefinerRan /\ OutsideBounds(lsq.x0, model.bounds)
    /\ {"f_D_star_infeasible", "x0_unfeasible"} \subseteq warnings

\* C7: the refiner returns the sentinel whenever a parameter the optimizer
\* produced is non-finite, and never returns a vector with a non-finite
\* component.
C7_SentinelOnAnyNonFinite ==
    RefinerRan =>
        /\ (~lsq.res.raised /\ NonFinite(lsq.res.x)) => params_two_stage = Sentinel
        /\ ~NonFinite(params_two_stage)

\* C8: when the refiner has substituted the sentinel for a non-finite
\* optimizer output, the result of a two-stage fit under the default bounds
\* is the sentinel.
C8_SentinelReachesResult ==
    (FitReturned /\ model.two_stage /\ model.bounds = BOUNDS
       /\ ~lsq.res.raised /\ NonFinite(lsq.res.x)
       /\ params_two_stage = Sentinel)
    => result = Sentinel

\* C9: the linear estimator returns no (prefactor, rate) pair from a subset
\* of fewer than 2 b-values: past the linear stage both subsets had 2 points
\* or more.
C9_NoFitThroughOnePoint ==
    pc \in {"PerfusionFit", "NonlinearRefine", "Decision", "Done"} =>
        lin.n_high >= 2 /\ lin.n_low >= 2

----------------------------------------------------------------------------
(* Signal model and prediction.  Parameters, b-values and kurtosis are      *)
(* integers here.  A predicted sample is kept as the term                   *)
(*    [S0, f, fast, slow6]  for  S0 * (f*exp(fast) + (1-f)*exp(slow6/6)),   *)
(* slow6 being six times the exponent of the slow compartment.              *)

MaxParam == 2
MaxK == 2

\* ivim_prediction(params, K, gtab), line 92, one term per b-value
ivim_prediction(params, K, g) ==
    [i \in DOMAIN g.bvals |->
        LET b == g.bvals[i]
            S0 == params[1]
            f == params[2]
            D_star == params[3]
            D == params[4]
        IN  [S0 |-> S0, f |-> f, fast |-> -b * D_star,
             slow6 |-> 6 * (-b * D) + (b * D * D) * K]]

\* _ivim_error(params, gtab, signal, K): signal - ivim_prediction(params, K, gtab)
ivim_error(params, g, sig, K) ==
    [i \in DOMAIN sig |-> [minuend |-> sig[i],
                           subtrahend |-> ivim_prediction(params, K, g)[i]]]

\* positional parameters ivim_prediction requires, and positional arguments
\* predict passes to it
ivim_prediction_arity == 3
predict_passes == 2

\* IvimModelDKI.predict: return ivim_prediction(ivim_params, gtab)
predict(p, g, K) ==
    IF predict_passes # ivim_prediction_arity
    THEN [raised |-> "TypeError", signal |-> NoVec]
    ELSE [raised |-> "none", signal |-> ivim_prediction(p, K, g)]

ValidGtabs == {g \in GtabSamples : IvimModelDKI_init(g, 1, 1, None, TRUE).raised = "none"}
ParamVectors == [1..4 -> 0..MaxParam]
ObservedSamples == {<<1, 1, 1>>, <<2, 1, 0>>}

InitSignal ==
    /\ pc = "ready"
    /\ gtab \in ValidGtabs
    /\ model = IvimModelDKI_init(gtab, 1, 1, None, TRUE).model
    /\ raised = "none"
    /\ warnings = {}
    /\ data = NoVec /\ lin = NoLin /\ params_f_D_star = NoVec
    /\ params_linear = NoVec /\ lsq = NoLsq /\ params_two_stage = NoVec
    /\ result = NoVec
    /\ ivim_params \in ParamVectors
    /\ dki_map \in 0..MaxK
    /\ signal = NoVec
    /\ BatchIdle

CallIvimPrediction ==
    /\ pc = "ready"
    /\ signal' = ivim_prediction(ivim_params, dki_map, gtab)
    /\ pc' = "ivim_prediction_returned"
    /\ UNCHANGED <<gtab, model, raised, warnings, fitVars, ivim_params, batchVars>>

CallIvimError ==
    /\ pc = "ready"
    /\ \E obs \in ObservedSamples :
          /\ data' = obs
          /\ signal' = ivim_error(ivim_params, gtab, obs, dki_map)
    /\ pc' = "ivim_error_returned"
    /\ UNCHANGED <<gtab, model, raised, warnings, dki_map, lin, params_f_D_star,
                   params_linear, lsq, params_two_stage, result, ivim_params,
                   batchVars>>

\* ivim_model.predict(ivim_params, gtab, kurtosis)
CallPredict ==
    /\ pc = "ready"
    /\ LET o == predict(ivim_params, gtab, dki_map)
       IN  /\ raised' = o.raised
           /\ signal' = o.signal
           /\ pc' = IF o.raised = "none" THEN "predict_returned"
                    ELSE "predict_raised"
    /\ UNCHANGED <<gtab, model, warnings, fitVars, ivim_params, batchVars>>

NextSignal == CallIvimPrediction \/ CallIvimError \/ CallPredict

SpecSignal == InitSignal /\ [][NextSignal]_vars

\* the sample of the spec's signal equation at b-value b
SpecSample(params, K, b) ==
    [S0 |-> params[1], f |-> params[2], fast |-> -b * params[3],
     slow6 |-> 6 * (-b * params[4]) + (b * b * params[4] * params[4]) * K]

\* two terms denote the same real number (exp is injective)
SameValue(t, u) ==
    /\ t.S0 = u.S0 /\ t.f = u.f /\ t.fast = u.fast
    /\ (t.slow6 = u.slow6 \/ t.S0 = 0 \/ t.f = 1)

\* C3: ivim_prediction returns S0*(f*exp(-b*D_star) + (1-f)*exp(-b*D +
\* b^2*D^2*K/6)) at every b-value, the kurtosis term being quadratic in b.
C3_KurtosisTermQuadraticInB ==
    pc = "ivim_prediction_returned" =>
        \A i \in DOMAIN gtab.bvals :
            SameValue(signal[i], SpecSample(ivim_params, dki_map, gtab.bvals[i]))

\* C4: predict returns the signal model's value for its inputs and does not
\* end in an error.
C4_PredictReturnsSignal ==
    pc \in {"predict_returned", "predict_raised"} =>
        /\ raised = "none"
        /\ signal = ivim_prediction(ivim_params, dki_map, gtab)

----------------------------------------------------------------------------
(* Multi-voxel fit: the decorator multi_voxel_fitDKI                        *)

MaxVoxels == 2

Prod(sh) == IF sh = << >> THEN 1 ELSE IF Len(sh) = 1 THEN sh[1] ELSE sh[1] * sh[2]

\* spatial shapes data.shape[:-1], of 0, 1 or 2 axes
Shapes ==
    {<< >>} \cup {<<n>> : n \in 1..MaxVoxels}
            \cup {<<n, m>> : n \in 1..MaxVoxels, m \in 1..MaxVoxels}
SmallShapes == {sh \in Shapes : Prod(sh) <= MaxVoxels}

\* dipy.core.ndindex.ndindex(shape): the index tuples in C order
RECURSIVE ndindex(_)
ndindex(sh) ==
    IF sh = << >> THEN << << >> >>
    ELSE LET rest == ndindex(Tail(sh))
         IN  [n \in 1..(Head(sh) * Len(rest)) |->
                <<((n - 1) \div Len(rest)) + 1>> \o rest[((n - 1) % Len(rest)) + 1]]

Indices(sh) == {ndindex(sh)[n] : n \in 1..Len(ndindex(sh))}

\* a voxel's signal and its kurtosis value; a signal of 0 stands for one the
\* single-voxel fit raises on
VoxelSamples ==
    {[sig |-> 1, K |-> 0], [sig |-> 1, K |-> 2], [sig |-> 2, K |-> 0],
     [sig |-> 0, K |-> 0]}

\* data and dki_map of one spatial shape
Volumes == UNION {{[shape |-> sh, vox |-> v] : v \in [Indices(sh) -> VoxelSamples]} :
                  sh \in SmallShapes}
Masks == UNION {{[shape |-> sh, val |-> v] : v \in [Indices(sh) -> BOOLEAN]} :
                sh \in SmallShapes \ {<< >>}}

Empty == [fitted |-> FALSE, sig |-> 0, K |-> 0]

\* the decorated single-voxel fit, as the decorator sees it: an IvimFit of
\* that signal and kurtosis, or an exception out of the fit
single_voxel_fit(sig, K) ==
    IF sig = 0 THEN [raised |-> "TypeError", fit |-> Empty]
    ELSE [raised |-> "none", fit |-> [fitted |-> TRUE, sig |-> sig, K |-> K]]

\* the mask test of the loop with the mask ignored
mask_at_all(m, idx) == TRUE

\* new_fit, line 44: mask[ijk]
mask_at(m, idx) == m.val[idx]

\* new_fit, lines 32-35: the all-true mask of the data's spatial shape
default_mask(sh) == [shape |-> sh, val |-> [idx \in Indices(sh) |-> TRUE]]

InitBatch ==
    /\ pc = "ready"
    /\ gtab = [bvals |-> <<0, 1, 2>>, b0_threshold |-> 0]
    /\ model = IvimModelDKI_init(gtab, 1, 1, None, TRUE).model
    /\ raised = "none"
    /\ warnings = {}
    /\ FitIdle /\ SignalIdle
    /\ volume \in Volumes
    /\ mask \in Masks \cup {None}
    /\ fit_array = << >>
    /\ ijk = 0
    /\ nfits = [idx \in Indices(volume.shape) |-> 0]

\* new_fit, lines 28-42: one voxel only, the mask, the empty object array
BatchCall ==
    /\ pc = "ready"
    /\ IF volume.shape = << >>
       THEN LET o == single_voxel_fit(volume.vox[<< >>].sig, volume.vox[<< >>].K)
            IN  /\ raised' = o.raised
                /\ result' = o.fit
                /\ nfits' = [nfits EXCEPT ![<< >>] = @ + 1]
                /\ pc' = IF o.raised = "none" THEN "SingleDone" ELSE "Raised"
                /\ UNCHANGED <<mask, fit_array, ijk>>
       ELSE IF mask = None
       THEN /\ mask' = default_mask(volume.shape)
            /\ fit_array' = [idx \in Indices(volume.shape) |-> Empty]
            /\ ijk' = 1
            /\ pc' = "Loop"
            /\ UNCHANGED <<raised, result, nfits>>
       ELSE IF mask.shape # volume.shape
       THEN /\ raised' = "ValueError"
            /\ pc' = "Raised"
            /\ UNCHANGED <<mask, fit_array, ijk, result, nfits>>
       ELSE /\ fit_array' = [idx \in Indices(volume.shape) |-> Empty]
            /\ ijk' = 1
            /\ pc' = "Loop"
            /\ UNCHANGED <<raised, mask, result, nfits>>
    /\ UNCHANGED <<gtab, model, warnings, data, dki_map, lin, params_f_D_star,
                   params_linear, lsq, params_two_stage, signalVars, volume>>

\* new_fit, lines 43-46: one turn of the loop over ndindex(data.shape[:-1])
BatchStep ==
    /\ pc = "Loop"
    /\ ijk <= Len(ndindex(volume.shape))
    /\ LET idx == ndindex(volume.shape)[ijk]
       IN  IF mask_at(mask, idx)
           THEN LET o == single_voxel_fit(volume.vox[idx].sig, volume.vox[idx].K)
                IN  /\ nfits' = [nfits EXCEPT ![idx] = @ + 1]
                    /\ IF o.raised = "none"
                       THEN /\ fit_array' = [fit_array EXCEPT ![idx] = o.fit]
                            /\ ijk' = ijk + 1
                            /\ UNCHANGED <<raised, pc>>
                       ELSE /\ raised' = o.raised
                            /\ pc' = "Raised"
                            /\ UNCHANGED <<fit_array, ijk>>
           ELSE /\ ijk' = ijk + 1
                /\ UNCHANGED <<fit_array, nfits, raised, pc>>
    /\ UNCHANGED <<gtab, model, warnings, fitVars, signalVars, volume, mask>>

\* new_fit, lines 47-48: return MultiVoxelFit(self, fit_array, mask)
BatchReturn ==
    /\ pc = "Loop"
    /\ ijk > Len(ndindex(volume.shape))
    /\ pc' = "BatchDone"
    /\ UNCHANGED <<gtab, model, raised, warnings, fitVars, signalVars, batchVars>>

NextBatch == BatchCall \/ BatchStep \/ BatchReturn

SpecBatch == InitBatch /\ [][NextBatch]_vars

MultiVoxel == volume.shape # << >>

\* C10: after a multi-voxel run every position with a true mask holds the
\* one single-voxel fit of its own signal and kurtosis, every position with
\* a false mask is empty and was never fitted, an omitted mask fits every
\* position, and a mask of another shape is an error raised before any fit.
C10_BatchFitsExactlyTheMask ==
    MultiVoxel =>
        /\ pc = "BatchDone" =>
              \A idx \in Indices(volume.shape) :
                 IF mask.val[idx]
                 THEN /\ fit_array[idx] =
                            [fitted |-> TRUE, sig |-> volume.vox[idx].sig,
                             K |-> volume.vox[idx].K]
                      /\ nfits[idx] = 1
                 ELSE fit_array[idx] = Empty /\ nfits[idx] = 0
        /\ (pc \in {"Loop", "BatchDone"}) =>
              /\ mask.shape = volume.shape
              /\ \A idx \in Indices(volume.shape) :
                    ~mask.val[idx] => fit_array[idx] = Empty /\ nfits[idx] = 0
        /\ (mask # None /\ mask.shape # volume.shape /\ pc # "ready") =>
              /\ pc = "Raised" /\ raised = "ValueError"
              /\ fit_array = << >>
              /\ \A idx \in Indices(volume.shape) : nfits[idx] = 0

C10_Witness ==
    /\ MultiVoxel /\ pc = "BatchDone"
    /\ \E i, j \in Indices(volume.shape) :
          /\ mask.val[i] /\ ~mask.val[j]
          /\ fit_array[i].fitted /\ nfits[i] = 1
          /\ fit_array[j] = Empty /\ nfits[j] = 0

====
